---------------------------- MODULE Spec2Model ----------------------------
(* Model of src/src/App.jsx (freedom-pulse): the refresh scheduler, the     *)
(* stabilizer, the shared document with its subscription push, the local   *)
(* fallback and the display animation loop of the App component.           *)
(*                                                                         *)
(* One App instance per client.  A step is one callback of the host        *)
(* (timer, promise continuation, snapshot listener, auth listener,         *)
(* animation frame) together with the render it causes; the effects that   *)
(* render schedules run in the following RunEffects step, before any other *)
(* callback.                                                               *)
EXTENDS Integers, Sequences, FiniteSets, TLC

\* ------------------------------------------------------------------------
\* Bounds of the exploration
MaxRefresh == 2      \* refreshes started in one run
MaxInFlight == 2     \* refreshes of one client awaiting the source at once
MaxTime == 61000     \* clock advance explored after start, in ms
MaxPrev == 60        \* previous totals 0..MaxPrev given to the stabilizer
MaxRaw == 70         \* raw totals 0..MaxRaw given to the stabilizer
MaxTarget == 3       \* animation targets 1..MaxTarget and 1000
MaxUpdates == 2      \* setDisplayNumber updaters queued before React renders
Resolution == 1000   \* displayNumber is kept in units of 1/Resolution
MaxRetarget == 1     \* changes of totalActive while the animation runs

\* ------------------------------------------------------------------------
\* Program constants
stalenessThreshold == 60 * 1000
TickPeriod == 10000

Clients == {"u1", "u2"}
Null == "null"
Undefined == "undefined"

\* JavaScript values that may or may not be numbers / arrays
Num(n) == [t |-> "number", v |-> n]
Arr(s) == [t |-> "array", v |-> s]
Undef == [t |-> "undefined"]
IsNumber(x) == x.t = "number"
IsArray(x) == x.t = "array"
Truthy(x) == x.t = "array" \/ (x.t = "number" /\ x.v # 0)

\* Dates: milliseconds; the clock starts late enough that new Date(0) is stale
NoDate == -1
Epoch == 0
StartTime == stalenessThreshold + TickPeriod
Delays == {stalenessThreshold, stalenessThreshold + 1000}

InitialHeadlines == <<"sync">>

VARIABLES db, now, store, app, refreshes, last

vars == <<db, now, store, app, refreshes, last>>

\* ------------------------------------------------------------------------
\* Payloads the Estimate Source may return (text of the first candidate)
ObjectPayload(tot, trend, headlines) ==
  [kind |-> "object", total |-> tot, trend |-> trend, headlines |-> headlines]
BadJson == [kind |-> "badjson", total |-> Undef, trend |-> Undefined, headlines |-> Undef]
JsonNull == [kind |-> "null", total |-> Undef, trend |-> Undefined, headlines |-> Undef]
NoPayload == [kind |-> "none", total |-> Undef, trend |-> Undefined, headlines |-> Undef]
Payloads == { ObjectPayload(Num(5000), "up", Arr(<<"A">>)),
              ObjectPayload(Num(4000), "down", Arr(<<>>)),
              ObjectPayload(Num(0), "down", Arr(<<"A">>)),
              ObjectPayload(Num(-5), "down", Arr(<<"A">>)),
              ObjectPayload(Undef, Undefined, Undef),
              JsonNull }
Failures == {"Failed to fetch", "HTTP 500"}

\* ------------------------------------------------------------------------
\* Math.round: nearest integer, halves up; the arguments are hundredths
RoundHundredths(h) == (h + 50) \div 100

\* Variant: drop protection with a floor of 90% instead of 95%
StabilizeTenPercent(totalActive, incomingTotal) ==
  IF totalActive > 0
    THEN IF incomingTotal < totalActive
           THEN LET floor == RoundHundredths(totalActive * 90)
                IN  IF incomingTotal > floor THEN incomingTotal ELSE floor
           ELSE RoundHundredths(totalActive * 90 + incomingTotal * 10)
    ELSE incomingTotal

\* Variant: Math.floor in the place of Math.round
StabilizeTruncating(totalActive, incomingTotal) ==
  IF totalActive > 0
    THEN IF incomingTotal < totalActive
           THEN LET floor == (totalActive * 95) \div 100
                IN  IF incomingTotal > floor THEN incomingTotal ELSE floor
           ELSE (totalActive * 90 + incomingTotal * 10) \div 100
    ELSE incomingTotal

\* Variant: no drop protection, a lower reading is taken as it is
StabilizeNoFloor(totalActive, incomingTotal) ==
  IF totalActive > 0 /\ incomingTotal >= totalActive
    THEN RoundHundredths(totalActive * 90 + incomingTotal * 10)
    ELSE incomingTotal

\* Heavy Stabilization (previous accepted total, incoming raw total)
Stabilize(totalActive, incomingTotal) ==
  IF totalActive > 0
    THEN IF incomingTotal < totalActive
           THEN LET floor == RoundHundredths(totalActive * 95)
                IN  IF incomingTotal > floor THEN incomingTotal ELSE floor
           ELSE RoundHundredths(totalActive * 90 + incomingTotal * 10)
    ELSE incomingTotal

IncomingTotal(data) == IF IsNumber(data.total) THEN data.total.v ELSE 0

\* ------------------------------------------------------------------------
\* The shared document
NoDoc == [exists |-> FALSE, total |-> Undef, trend |-> Undefined,
          headlines |-> Undef, timestamp |-> 0, updatedBy |-> Null]

\* One App instance right after its first render.  fx holds the effects that
\* render scheduled; the animation effect is explored by SpecAnimation, which
\* starts with it scheduled.
InitialApp(running) ==
  [ phase |-> IF running THEN "mounted" ELSE "off",
    totalActive |-> 0,
    displayNumber |-> 0,
    trend |-> "stable",
    headlines |-> InitialHeadlines,
    lastUpdated |-> NoDate,
    apiStatus |-> "idle",
    errorDetails |-> "",
    user |-> Null,
    signIn |-> "none",
    subscribed |-> FALSE,
    behind |-> FALSE,
    updates |-> <<>>,
    frame |-> FALSE,
    fx |-> IF running THEN {"auth", "sync", "fetch"} ELSE {},
    timerDue |-> FALSE,
    inflight |-> <<>> ]

\* What the last step was: the callback and its client; for the completion of
\* a refresh also the raw total it received, the totalActive its closure held,
\* the apiStatus from before the refresh started, whether it replaced the
\* document, and (set by FetchDone) the parsed payload
NoRaw == -1000000
Did(op, c) ==
  [op |-> op, c |-> c, raw |-> NoRaw, base |-> 0, before |-> "", wrote |-> FALSE,
   payload |-> NoPayload]
Completed(op, c, raw, closure, wrote) ==
  [op |-> op, c |-> c, raw |-> raw, base |-> closure.totalActive,
   before |-> closure.statusBefore, wrote |-> wrote, payload |-> NoPayload]

Running == IF db THEN Clients ELSE {"u1"}

Init ==
  /\ db \in BOOLEAN
  /\ now = StartTime
  /\ store = NoDoc
  /\ app = [c \in Clients |-> InitialApp(c \in Running)]
  /\ refreshes = 0
  /\ last = Did("Init", Null)

\* ------------------------------------------------------------------------
\* 4. Data Fetching: checkAndRunUpdate as one App instance s runs it at time t
\* Variant: the refresh takes the local branch although a store is configured
isLocalModeAlways == TRUE

isLocalMode == ~db

\* Variant: every check finds the snapshot stale
needsUpdateAlways(s, t) == TRUE

\* Variant: only a client that has seen no snapshot at all finds an update due
needsUpdateOnce(s, t) == s.lastUpdated = NoDate

needsUpdate(s, t) ==
  s.lastUpdated = NoDate \/ t - s.lastUpdated > stalenessThreshold

\* Variant: the `if (!isLocalMode && !user) return` is missing
StartsRefreshUngated(s, t) == needsUpdate(s, t) \/ isLocalMode

StartsRefresh(s, t) ==
  /\ needsUpdate(s, t) \/ isLocalMode
  /\ ~(~isLocalMode /\ s.user = Null)

\* up to the await of callGemini: the closure keeps totalActive and user
\* (statusBefore remembers the apiStatus that 'loading' replaced)
checkAndRunUpdate(s, t) ==
  IF StartsRefresh(s, t)
    THEN [s EXCEPT !.apiStatus = "loading",
                   !.inflight = Append(@, [totalActive |-> s.totalActive, user |-> s.user,
                                           statusBefore |-> s.apiStatus])]
    ELSE s

WithinBounds(s, t) ==
  StartsRefresh(s, t) => refreshes < MaxRefresh /\ Len(s.inflight) < MaxInFlight

\* 1. Firebase Auth
AuthEffect(s) ==
  IF "auth" \in s.fx /\ db THEN [s EXCEPT !.signIn = "pending"] ELSE s

\* Variant: the subscription does not wait for the user
SyncEffectAnonymous(s) ==
  IF "sync" \in s.fx /\ db
    THEN [s EXCEPT !.subscribed = TRUE, !.behind = TRUE]
    ELSE s

\* 2. Central Data Sync: subscribe once db and user are there
SyncEffect(s) ==
  IF "sync" \in s.fx /\ db /\ s.user # Null
    THEN [s EXCEPT !.subscribed = TRUE, !.behind = TRUE]
    ELSE s

\* 4. Data Fetching: clear the old interval, check at once, set the interval
FetchEffect(s, t) ==
  IF "fetch" \in s.fx THEN checkAndRunUpdate([s EXCEPT !.timerDue = FALSE], t) ELSE s

EffectsDone == \A k \in Clients : app[k].fx = {}

Idle(c) == app[c].phase = "mounted" /\ EffectsDone

\* ------------------------------------------------------------------------
\* 3. Robust Animation Loop.  displayNumber is a double in the program; here
\* it is a fixed-point number with Resolution units per 1 and the 5% step is
\* truncated to a unit.
Abs(x) == IF x < 0 THEN -x ELSE x

\* Variant: the updater without the `Math.abs(diff) < 1` snap
ApproachNoSnap(target, prev) ==
  LET diff == target * Resolution - prev
  IN  IF diff > 0 THEN prev + (diff * 5) \div 100
                  ELSE prev - ((-diff) * 5) \div 100

\* the updater passed to setDisplayNumber, with the totalActive of its closure
Approach(target, prev) ==
  LET diff == target * Resolution - prev
  IN  IF Abs(diff) < Resolution
        THEN target * Resolution
        ELSE IF diff > 0 THEN prev + (diff * 5) \div 100
                         ELSE prev - ((-diff) * 5) \div 100

\* React applies the queued updaters in order when it renders
RECURSIVE ApplyUpdates(_, _)
ApplyUpdates(updates, prev) ==
  IF updates = <<>> THEN prev
  ELSE ApplyUpdates(Tail(updates), Approach(Head(updates), prev))

\* Math.abs(totalActive - displayNumber) > 0.5
KeepsRunning(s) == 2 * Abs(s.totalActive * Resolution - s.displayNumber) > Resolution

\* animate(): queue the updater, request a frame while the closure's
\* difference is above 0.5
animate(s) ==
  [s EXCEPT !.updates = Append(@, s.totalActive),
            !.frame = IF KeepsRunning(s) THEN TRUE ELSE @]

\* the effect: cancelAnimationFrame of the previous run, then animate()
AnimEffect(s) ==
  IF "anim" \in s.fx THEN animate([s EXCEPT !.frame = FALSE]) ELSE s

\* The effects scheduled by the last render of client c
RunEffects(c) ==
  /\ app[c].phase = "mounted"
  /\ app[c].fx # {}
  /\ "fetch" \in app[c].fx => WithinBounds(SyncEffect(AuthEffect(app[c])), now)
  /\ app' = [app EXCEPT ![c] =
               [FetchEffect(AnimEffect(SyncEffect(AuthEffect(app[c]))), now) EXCEPT !.fx = {}]]
  /\ refreshes' = refreshes + Len(app'[c].inflight) - Len(app[c].inflight)
  /\ last' = Did("RunEffects", c)
  /\ UNCHANGED <<db, now, store>>

\* setInterval(checkAndRunUpdate, 10000)
Tick(c) ==
  /\ Idle(c)
  /\ app[c].timerDue
  /\ WithinBounds(app[c], now)
  /\ app' = [app EXCEPT ![c] = checkAndRunUpdate([app[c] EXCEPT !.timerDue = FALSE], now)]
  /\ refreshes' = refreshes + Len(app'[c].inflight) - Len(app[c].inflight)
  /\ last' = Did("Tick", c)
  /\ UNCHANGED <<db, now, store>>

\* Time passes; every step is at least one timer period
Advance(d) ==
  /\ d >= TickPeriod
  /\ now + d <= StartTime + MaxTime
  /\ EffectsDone
  /\ now' = now + d
  /\ app' = [c \in Clients |->
               IF app[c].phase = "mounted" THEN [app[c] EXCEPT !.timerDue = TRUE] ELSE app[c]]
  /\ last' = Did("Advance", Null)
  /\ UNCHANGED <<db, store, refreshes>>

\* onAuthStateChanged(auth, setUser) after signInAnonymously resolved
AuthOk(c) ==
  /\ Idle(c)
  /\ app[c].signIn = "pending"
  /\ app' = [app EXCEPT ![c] = [@ EXCEPT !.user = c, !.signIn = "done",
                                         !.fx = {"sync", "fetch"}]]
  /\ last' = Did("AuthOk", c)
  /\ UNCHANGED <<db, now, store, refreshes>>

\* signInAnonymously(auth).catch(...)
AuthFail(c) ==
  /\ Idle(c)
  /\ app[c].signIn = "pending"
  /\ app' = [app EXCEPT ![c] = [@ EXCEPT !.signIn = "failed"]]
  /\ last' = Did("AuthFail", c)
  /\ UNCHANGED <<db, now, store, refreshes>>

\* Variant: the callback skips a document the client wrote itself
OnSnapshotSkipOwn(s, d) ==
  IF d.exists /\ d.updatedBy = s.user
    THEN s
    ELSE IF d.exists
      THEN [s EXCEPT !.totalActive = IF IsNumber(d.total) THEN d.total.v ELSE 0,
                     !.trend = IF d.trend \in {Undefined, ""} THEN "stable" ELSE d.trend,
                     !.headlines = IF IsArray(d.headlines) THEN d.headlines.v ELSE @,
                     !.lastUpdated = IF d.timestamp # 0 THEN d.timestamp ELSE @,
                     !.apiStatus = "success",
                     !.fx = {"fetch"}]
      ELSE [s EXCEPT !.lastUpdated = Epoch, !.fx = {"fetch"}]

\* onSnapshot callback applied to the document d
OnSnapshot(s, d) ==
  IF d.exists
    THEN LET validTotal == IF IsNumber(d.total) THEN d.total.v ELSE 0
             stamped == d.timestamp # 0
         IN  [s EXCEPT !.totalActive = validTotal,
                       !.trend = IF d.trend \in {Undefined, ""} THEN "stable" ELSE d.trend,
                       !.headlines = IF IsArray(d.headlines) THEN d.headlines.v ELSE @,
                       !.lastUpdated = IF stamped THEN d.timestamp ELSE @,
                       !.apiStatus = "success",
                       !.fx = IF stamped \/ validTotal # s.totalActive THEN {"fetch"} ELSE {}]
    ELSE [s EXCEPT !.lastUpdated = Epoch, !.fx = {"fetch"}]

\* The store delivers its current document to the listener of client c
Push(c) ==
  /\ Idle(c)
  /\ app[c].subscribed
  /\ app[c].behind
  /\ app' = [app EXCEPT ![c] = OnSnapshot([@ EXCEPT !.behind = FALSE], store)]
  /\ last' = Did("Push", c)
  /\ UNCHANGED <<db, now, store, refreshes>>

\* The session ends: every effect cleanup runs and the state of the instance
\* is discarded; what stays behind are the refreshes awaiting the source
Unmount(c) ==
  /\ app[c].phase = "mounted"
  /\ app' = [app EXCEPT ![c] = [InitialApp(FALSE) EXCEPT !.phase = "ended",
                                                         !.inflight = app[c].inflight]]
  /\ last' = Did("Unmount", c)
  /\ UNCHANGED <<db, now, store, refreshes>>

\* ------------------------------------------------------------------------
\* Completion of a refresh: the code after `await callGemini(...)`
RemoveAt(q, i) == [j \in 1..(Len(q) - 1) |-> IF j < i THEN q[j] ELSE q[j + 1]]

\* Variant: the catch block also resets the accepted total
CatchClearing(s, message) ==
  [s EXCEPT !.apiStatus = "error", !.errorDetails = message, !.totalActive = 0]

\* catch (e): setApiStatus('error'); setErrorDetails(e.message)
Catch(s, message) == [s EXCEPT !.apiStatus = "error", !.errorDetails = message]

\* Variant: the local branch without setLastUpdated(new Date())
AcceptLocallyUnstamped(s, data, stabilizedTotal, t) ==
  [s EXCEPT !.totalActive = stabilizedTotal,
            !.trend = IF data.trend \in {Undefined, ""} THEN @ ELSE data.trend,
            !.headlines = IF Truthy(data.headlines) THEN data.headlines.v ELSE @,
            !.apiStatus = "success",
            !.fx = {"fetch"}]

\* the isLocalMode branch: the accepted values go straight into the state
AcceptLocally(s, data, stabilizedTotal, t) ==
  [s EXCEPT !.totalActive = stabilizedTotal,
            !.trend = IF data.trend \in {Undefined, ""} THEN @ ELSE data.trend,
            !.headlines = IF Truthy(data.headlines) THEN data.headlines.v ELSE @,
            !.lastUpdated = t,
            !.apiStatus = "success",
            !.fx = {"fetch"}]

\* the document handed to setDoc
NewDoc(data, stabilizedTotal, t, uid) ==
  [exists |-> TRUE, total |-> Num(stabilizedTotal), trend |-> data.trend,
   headlines |-> data.headlines, timestamp |-> t, updatedBy |-> uid]

\* setDoc rejects a document with an undefined field
Storable(data) == data.trend # Undefined /\ data.headlines # Undef

\* setState of an instance that was unmounted is dropped
Commit(c, s) == IF app[c].phase = "mounted" THEN s ELSE [app[c] EXCEPT !.inflight = s.inflight]

\* callGemini throws: fetch failed, or the response was not ok
FetchFail(c, i, message) ==
  /\ app[c].phase \in {"mounted", "ended"}
  /\ EffectsDone
  /\ i \in 1..Len(app[c].inflight)
  /\ LET s == [app[c] EXCEPT !.inflight = RemoveAt(@, i)]
     IN  app' = [app EXCEPT ![c] = Commit(c, Catch(s, message))]
  /\ last' = Completed("FetchFail", c, NoRaw, app[c].inflight[i], FALSE)
  /\ UNCHANGED <<db, now, store, refreshes>>

\* callGemini returns text that JSON.parse rejects: `return` inside the try
ParseFail(c, i) ==
  /\ app[c].phase \in {"mounted", "ended"}
  /\ EffectsDone
  /\ i \in 1..Len(app[c].inflight)
  /\ app' = [app EXCEPT ![c] = [@ EXCEPT !.inflight = RemoveAt(@, i)]]
  /\ last' = Completed("ParseFail", c, NoRaw, app[c].inflight[i], FALSE)
  /\ UNCHANGED <<db, now, store, refreshes>>

\* callGemini returns JSON text; data is the parsed value; writeOk is whether
\* the store accepts the write
FetchDone(c, i, data, writeOk) ==
  /\ app[c].phase \in {"mounted", "ended"}
  /\ EffectsDone
  /\ i \in 1..Len(app[c].inflight)
  /\ data.kind \in {"object", "null"}
  /\ LET closure == app[c].inflight[i]
         s == [app[c] EXCEPT !.inflight = RemoveAt(@, i)]
         stabilizedTotal == Stabilize(closure.totalActive, IncomingTotal(data))
         writes == ~isLocalMode /\ data.kind = "object" /\ Storable(data) /\ writeOk
     IN  /\ isLocalMode => writeOk
         /\ app' =
              IF data.kind = "null"
                THEN [app EXCEPT ![c] = Commit(c, Catch(s, "TypeError"))]
              ELSE IF isLocalMode
                THEN [app EXCEPT ![c] = Commit(c, AcceptLocally(s, data, stabilizedTotal, now))]
              ELSE IF writes
                THEN [k \in Clients |->
                        LET r == IF k = c THEN s ELSE app[k]
                        IN  IF r.subscribed THEN [r EXCEPT !.behind = TRUE] ELSE r]
              ELSE [app EXCEPT ![c] = Commit(c, Catch(s, "setDoc failed"))]
         /\ store' = IF writes THEN NewDoc(data, stabilizedTotal, now, closure.user) ELSE store
         /\ last' = [Completed("FetchDone", c,
                                IF data.kind = "null" THEN NoRaw ELSE IncomingTotal(data),
                                closure, writes) EXCEPT !.payload = data]
  /\ UNCHANGED <<db, now, refreshes>>

Next ==
  \/ \E c \in Clients : RunEffects(c)
  \/ \E c \in Clients : Tick(c)
  \/ \E d \in Delays : Advance(d)
  \/ \E c \in Clients : AuthOk(c)
  \/ \E c \in Clients : AuthFail(c)
  \/ \E c \in Clients : Push(c)
  \/ \E c \in Clients : Unmount(c)
  \/ \E c \in Clients, i \in 1..MaxInFlight, m \in Failures : FetchFail(c, i, m)
  \/ \E c \in Clients, i \in 1..MaxInFlight : ParseFail(c, i)
  \/ \E c \in Clients, i \in 1..MaxInFlight, data \in Payloads, ok \in BOOLEAN :
       FetchDone(c, i, data, ok)

Spec == Init /\ [][Next]_vars

\* ------------------------------------------------------------------------
\* The animation loop on its own.  The loop reads totalActive and writes
\* displayNumber only, and nothing else reads displayNumber, so it is explored
\* here from the state in which a target has just been accepted.

\* React renders with the queued setDisplayNumber updaters; the effect is
\* scheduled again when displayNumber changed
RenderDisplay(c) ==
  /\ Idle(c)
  /\ app[c].updates # <<>>
  /\ LET shown == ApplyUpdates(app[c].updates, app[c].displayNumber)
     IN  app' = [app EXCEPT ![c] =
                   [@ EXCEPT !.displayNumber = shown,
                             !.updates = <<>>,
                             !.fx = IF shown # app[c].displayNumber THEN {"anim"} ELSE {}]]
  /\ last' = Did("RenderDisplay", c)
  /\ UNCHANGED <<db, now, store, refreshes>>

\* requestAnimationFrame(animate) fires with the closure of the last effect
AnimationFrame(c) ==
  /\ Idle(c)
  /\ app[c].frame
  /\ Len(app[c].updates) < MaxUpdates
  /\ app' = [app EXCEPT ![c] = animate(@)]
  /\ last' = Did("AnimationFrame", c)
  /\ UNCHANGED <<db, now, store, refreshes>>

AnimTargets == (1..MaxTarget) \cup {1000}

AnimInit ==
  /\ db = FALSE
  /\ now = StartTime
  /\ store = NoDoc
  /\ refreshes = 0
  /\ \E target \in AnimTargets :
       app = [c \in Clients |->
                IF c = "u1"
                  THEN [InitialApp(TRUE) EXCEPT !.totalActive = target, !.fx = {"anim"}]
                  ELSE InitialApp(FALSE)]
  /\ last = Did("Init", Null)

AnimNext ==
  \/ RunEffects("u1")
  \/ RenderDisplay("u1")
  \/ AnimationFrame("u1")

\* React renders what was queued and the browser delivers requested frames
SpecAnimation ==
  /\ AnimInit
  /\ [][AnimNext]_vars
  /\ WF_vars(RunEffects("u1"))
  /\ WF_vars(RenderDisplay("u1"))
  /\ WF_vars(AnimationFrame("u1"))

\* ------------------------------------------------------------------------
\* The animation loop while totalActive changes.  setTotalActive(target), as
\* the subscription callback and the local accept call it, and the render it
\* causes: the render applies the updaters queued so far, which hold the
\* totalActive of the effect run that queued them.  The frame the previous
\* effect run requested is cancelled by the cleanup of the effect, which runs
\* after the render; staleFrame is whether that frame fires first.
Retarget(c, target, staleFrame) ==
  /\ Idle(c)
  /\ refreshes < MaxRetarget
  /\ target # app[c].totalActive
  /\ staleFrame => app[c].frame
  /\ app' = [app EXCEPT ![c] =
               [@ EXCEPT !.totalActive = target,
                         !.displayNumber = ApplyUpdates(app[c].updates, @),
                         !.updates = IF staleFrame THEN <<app[c].totalActive>> ELSE <<>>,
                         !.fx = {"anim"}]]
  /\ refreshes' = refreshes + 1
  /\ last' = Did("Retarget", c)
  /\ UNCHANGED <<db, now, store>>

RetargetTargets == 0..MaxTarget

RetargetInit ==
  /\ db = FALSE
  /\ now = StartTime
  /\ store = NoDoc
  /\ refreshes = 0
  /\ \E target \in 1..MaxTarget :
       app = [c \in Clients |->
                IF c = "u1"
                  THEN [InitialApp(TRUE) EXCEPT !.totalActive = target, !.fx = {"anim"}]
                  ELSE InitialApp(FALSE)]
  /\ last = Did("Init", Null)

RetargetNext ==
  \/ RunEffects("u1")
  \/ RenderDisplay("u1")
  \/ AnimationFrame("u1")
  \/ \E target \in RetargetTargets, staleFrame \in BOOLEAN : Retarget("u1", target, staleFrame)

SpecRetarget ==
  /\ RetargetInit
  /\ [][RetargetNext]_vars
  /\ WF_vars(RunEffects("u1"))
  /\ WF_vars(RenderDisplay("u1"))
  /\ WF_vars(AnimationFrame("u1"))

\* ------------------------------------------------------------------------
\* The shared document and its subscribers.  Both clients have signed in,
\* subscribed and received the 'absent' first snapshot; each has the refresh
\* of its sign-in and the refresh of that snapshot awaiting the source.  No
\* time passes, so the refreshes in flight are the only writers.
Joined(c) ==
  LET signedIn == [InitialApp(TRUE) EXCEPT !.user = c, !.signIn = "done", !.fx = {"sync", "fetch"}]
      started == FetchEffect(SyncEffect(signedIn), StartTime)
      first == OnSnapshot([started EXCEPT !.behind = FALSE, !.fx = {}], NoDoc)
  IN  [FetchEffect(first, StartTime) EXCEPT !.fx = {}]

SyncInit ==
  /\ db = TRUE
  /\ now = StartTime
  /\ store = NoDoc
  /\ app = [c \in Clients |-> Joined(c)]
  /\ refreshes = 2 * Cardinality(Clients)
  /\ last = Did("Init", Null)

\* the payloads with a total that differs from the one a client starts with
SyncPayloads == {data \in Payloads : IsNumber(data.total) /\ data.total.v # 0}

SyncNext ==
  \/ \E c \in Clients : RunEffects(c)
  \/ \E c \in Clients : Push(c)
  \/ \E c \in Clients : Unmount(c)
  \/ \E c \in Clients, i \in 1..MaxInFlight, m \in Failures : FetchFail(c, i, m)
  \/ \E c \in Clients, i \in 1..MaxInFlight, data \in SyncPayloads, ok \in BOOLEAN :
       FetchDone(c, i, data, ok)

\* the store delivers what it holds and React runs the effects
SpecSync ==
  /\ SyncInit
  /\ [][SyncNext]_vars
  /\ \A c \in Clients : WF_vars(RunEffects(c)) /\ WF_vars(Push(c))

\* ------------------------------------------------------------------------
\* The stabilization step on its own: one local refresh completes for every
\* previous total and every raw total of the ranges below
StabPrevs == (0..MaxPrev) \cup {1000}
StabRaws == (0..MaxRaw) \cup {800, 1000, 1200}

StabInit ==
  /\ db = FALSE
  /\ now = StartTime
  /\ store = NoDoc
  /\ refreshes = 1
  /\ \E prev \in StabPrevs :
       app = [c \in Clients |->
                IF c = "u1"
                  THEN checkAndRunUpdate([InitialApp(TRUE) EXCEPT !.totalActive = prev,
                                                                  !.fx = {}], StartTime)
                  ELSE InitialApp(FALSE)]
  /\ last = Did("Init", Null)

StabNext ==
  \E raw \in StabRaws : FetchDone("u1", 1, ObjectPayload(Num(raw), "up", Arr(<<"A">>)), TRUE)

SpecStabilize == StabInit /\ [][StabNext]_vars

\* ------------------------------------------------------------------------
\* The scheduler of one client with no limit on the number of attempts.  The
\* clock stops at its bound while the interval keeps firing (a refresh that
\* is due stays due as time passes), and attempts that have completed no
\* longer count against MaxRefresh.
ClockAtBound == \A d \in Delays : now + d > StartTime + MaxTime

\* setInterval(checkAndRunUpdate, 10000): the next period has elapsed
TimerFires(c) ==
  /\ Idle(c)
  /\ ClockAtBound
  /\ ~app[c].timerDue
  /\ app' = [app EXCEPT ![c] = [@ EXCEPT !.timerDue = TRUE]]
  /\ last' = Did("TimerFires", c)
  /\ UNCHANGED <<db, now, store, refreshes>>

\* only the attempts of c still awaiting the source count against MaxRefresh
Forget(c) ==
  /\ refreshes > Len(app[c].inflight)
  /\ refreshes' = Len(app[c].inflight)
  /\ last' = Did("Forget", c)
  /\ UNCHANGED <<db, now, store, app>>

\* a tick that leaves room, within MaxInFlight, for the attempt an effect
\* re-run may start
RetryTick(c) ==
  /\ Len(app[c].inflight) + 1 < MaxInFlight
  /\ Tick(c)

ValidPayload == ObjectPayload(Num(5000), "up", Arr(<<"A">>))

RetryInit ==
  /\ db \in BOOLEAN
  /\ now = StartTime
  /\ store = NoDoc
  /\ app = [c \in Clients |-> InitialApp(c = "u1")]
  /\ refreshes = 0
  /\ last = Did("Init", Null)

\* the source answers with a valid payload and the store accepts the write
Succeeds == \E i \in 1..MaxInFlight : FetchDone("u1", i, ValidPayload, TRUE)

RetryNext ==
  \/ RunEffects("u1")
  \/ RetryTick("u1")
  \/ \E d \in Delays : Advance(d)
  \/ TimerFires("u1")
  \/ Forget("u1")
  \/ AuthOk("u1")
  \/ AuthFail("u1")
  \/ Push("u1")
  \/ \E i \in 1..MaxInFlight, m \in Failures : FetchFail("u1", i, m)
  \/ \E i \in 1..MaxInFlight : ParseFail("u1", i)
  \/ \E i \in 1..MaxInFlight : FetchDone("u1", i, JsonNull, TRUE)
  \/ \E i \in 1..MaxInFlight : FetchDone("u1", i, ValidPayload, FALSE)
  \/ Succeeds

\* time passes, effects and timers run when they are due; the source and the
\* store do not fail forever
SpecRetry ==
  /\ RetryInit
  /\ [][RetryNext]_vars
  /\ WF_vars(\E d \in Delays : Advance(d))
  /\ WF_vars(RunEffects("u1"))
  /\ WF_vars(RetryTick("u1"))
  /\ WF_vars(TimerFires("u1"))
  /\ WF_vars(Forget("u1"))
  /\ SF_vars(Succeeds)

\* ------------------------------------------------------------------------
\* Local refreshes one after the other: each accepted refresh re-runs the
\* fetching effect, which starts the next one with the total just accepted
RatchetRaws == {0, 1, MaxRaw}

RatchetNext ==
  \/ \E raw \in RatchetRaws : FetchDone("u1", 1, ObjectPayload(Num(raw), "up", Arr(<<"A">>)), TRUE)
  \/ RunEffects("u1")
  \/ Forget("u1")

SpecRatchet == StabInit /\ [][RatchetNext]_vars

TypeOK ==
  /\ db \in BOOLEAN
  /\ \A c \in Clients : app[c].totalActive \in Int /\ Len(app[c].inflight) <= MaxInFlight

\* ------------------------------------------------------------------------
\* Properties

\* r is num/den rounded to the nearest integer, halves up
IsRounded(r, num, den) == 2 * den * r - den <= 2 * num /\ 2 * num < 2 * den * r + den

Max(a, b) == IF a > b THEN a ELSE b

\* C1: the stabilization step yields R when P = 0, max(R, round(0.95 P)) when
\* P > 0 and R < P, and round(0.9 P + 0.1 R) when P > 0 and R >= P; in
\* particular (1000, 800) gives 950, (1000, 1200) gives 1020 and (1000, 1000)
\* gives 1000.  P is the total the refresh held, R the raw total it received.
C1_StabilizeCases ==
  last.op = "FetchDone" =>
    LET P == last.base
        R == last.raw
        S == app["u1"].totalActive
    IN  /\ P = 0 => S = R
        /\ P > 0 /\ R < P => \E f \in 0..P : IsRounded(f, 95 * P, 100) /\ S = Max(R, f)
        /\ P > 0 /\ R >= P => IsRounded(S, 90 * P + 10 * R, 100)
        /\ P = 1000 /\ R = 800 => S = 950
        /\ P = 1000 /\ R = 1200 => S = 1020
        /\ P = 1000 /\ R = 1000 => S = 1000

C1_Witness ==
  /\ last.op = "FetchDone"
  /\ last.base = 1000
  /\ last.raw = 800
  /\ app["u1"].totalActive = 950

\* A step in which client c runs checkAndRunUpdate: a timer tick, or the call
\* the fetching effect makes when it starts
Checks(c) ==
  /\ last'.c = c
  /\ \/ last'.op = "Tick"
     \/ last'.op = "RunEffects" /\ "fetch" \in app[c].fx

\* A snapshot has been seen and is not older than the staleness threshold
Fresh(c) ==
  /\ app[c].lastUpdated # NoDate
  /\ now - app[c].lastUpdated <= stalenessThreshold

NoRefresh(c) ==
  /\ app'[c].inflight = app[c].inflight
  /\ app'[c].apiStatus = app[c].apiStatus
  /\ app'[c].totalActive = app[c].totalActive
  /\ app'[c].lastUpdated = app[c].lastUpdated
  /\ store' = store

\* C2 as stated: in local and in shared mode a check that finds a fresh
\* snapshot performs no refresh
C2_GateInEveryMode ==
  [][\A c \in Clients : Checks(c) /\ Fresh(c) => NoRefresh(c)]_vars

\* C2 amended: in shared mode a check that finds a snapshot not older than
\* the threshold performs no refresh and leaves apiStatus, totalActive and
\* lastUpdated alone; in local mode the same check starts a refresh
C2_GateInSharedMode ==
  [][\A c \in Clients :
       Checks(c) /\ Fresh(c) =>
         /\ db => NoRefresh(c)
         /\ ~db => /\ Len(app'[c].inflight) = Len(app[c].inflight) + 1
                   /\ app'[c].apiStatus = "loading"]_vars

C2_Witness ==
  \E c \in Clients :
    /\ db
    /\ last.op = "Tick"
    /\ last.c = c
    /\ app[c].lastUpdated > Epoch
    /\ now - app[c].lastUpdated = stalenessThreshold
    /\ app[c].inflight = <<>>

\* C3: no accepted write lowers the current total P > 0 below round(0.95 P):
\* neither the local accept nor the replacement of the shared document
C3_DropCeiling ==
  [][/\ \A c \in Clients :
          /\ ~db
          /\ last'.op = "FetchDone" /\ last'.c = c /\ last'.raw # NoRaw
          /\ app[c].phase = "mounted"
          /\ app[c].totalActive > 0
          => app'[c].totalActive >= RoundHundredths(95 * app[c].totalActive)
     /\ last'.wrote /\ store.exists /\ store.total.v > 0
          => store'.total.v >= RoundHundredths(95 * store.total.v)]_vars

\* C4: a refresh that ends in a JSON parse failure leaves totalActive, trend,
\* headlines, lastUpdated and the store as they are and apiStatus as it was
\* before the refresh started
C4_ParseFailureIsSilent ==
  [][\A c \in Clients :
       last'.op = "ParseFail" /\ last'.c = c /\ app[c].phase = "mounted" =>
         /\ app'[c].totalActive = app[c].totalActive
         /\ app'[c].trend = app[c].trend
         /\ app'[c].headlines = app[c].headlines
         /\ app'[c].lastUpdated = app[c].lastUpdated
         /\ store' = store
         /\ app'[c].apiStatus = last'.before]_vars

\* C5: a refresh whose call to the source fails ends with apiStatus 'error'
\* and the failure message in errorDetails; totalActive, trend, headlines and
\* lastUpdated keep their values and the store is not written
C5_TransportFailure ==
  [][\A c \in Clients :
       last'.op = "FetchFail" /\ last'.c = c /\ app[c].phase = "mounted" =>
         /\ app'[c].apiStatus = "error"
         /\ app'[c].errorDetails \in Failures
         /\ app'[c].totalActive = app[c].totalActive
         /\ app'[c].trend = app[c].trend
         /\ app'[c].headlines = app[c].headlines
         /\ app'[c].lastUpdated = app[c].lastUpdated
         /\ ~last'.wrote
         /\ store' = store]_vars

C5_Witness ==
  \E c \in Clients :
    /\ last.op = "FetchFail"
    /\ last.c = c
    /\ app[c].apiStatus = "error"
    /\ app[c].errorDetails = "HTTP 500"
    /\ app[c].totalActive = 5000
    /\ app[c].lastUpdated # NoDate

\* C6: once the session of a client has ended, no step changes its state,
\* starts a fetch for it or writes the store on its behalf
C6_NothingAfterTeardown ==
  [][\A c \in Clients :
       app[c].phase = "ended" =>
         /\ app'[c].totalActive = app[c].totalActive
         /\ app'[c].displayNumber = app[c].displayNumber
         /\ app'[c].trend = app[c].trend
         /\ app'[c].headlines = app[c].headlines
         /\ app'[c].lastUpdated = app[c].lastUpdated
         /\ app'[c].apiStatus = app[c].apiStatus
         /\ Len(app'[c].inflight) <= Len(app[c].inflight)
         /\ ~(last'.c = c /\ last'.wrote)]_vars

\* C7: in local mode a refresh that parsed a payload with raw total R, started
\* when totalActive was P, sets totalActive to stabilize(P, R), apiStatus to
\* 'success' and lastUpdated to the current time; 5000 from the initial state
\* gives 5000 and a following 4000 gives 4750
C7_LocalRefresh ==
  \A c \in Clients :
    /\ ~db
    /\ last.op = "FetchDone" /\ last.c = c /\ last.raw # NoRaw
    /\ app[c].phase = "mounted"
    => /\ app[c].totalActive = Stabilize(last.base, last.raw)
       /\ app[c].apiStatus = "success"
       /\ app[c].lastUpdated = now
       /\ last.base = 0 /\ last.raw = 5000 => app[c].totalActive = 5000
       /\ last.base = 5000 /\ last.raw = 4000 => app[c].totalActive = 4750

C7_Witness ==
  \E c \in Clients :
    /\ ~db
    /\ last.op = "FetchDone" /\ last.c = c
    /\ last.base = 5000 /\ last.raw = 4000
    /\ app[c].totalActive = 4750
    /\ app[c].apiStatus = "success"

\* C8: in shared mode a check made while user is null starts no refresh,
\* writes nothing and leaves apiStatus, totalActive and lastUpdated alone;
\* every refresh in flight holds the identity of its client and every write
\* stores that identity in updatedBy
C8_IdentityGating ==
  /\ [][\A c \in Clients :
          /\ db /\ Checks(c) /\ app[c].user = Null => NoRefresh(c) /\ ~last'.wrote
          /\ last'.c = c /\ last'.wrote => store'.updatedBy = c]_vars
  /\ [](\A c \in Clients :
          db => \A i \in 1..Len(app[c].inflight) : app[c].inflight[i].user = c)
  /\ [](store.exists => store.updatedBy \in Clients)

C8_Witness ==
  \E c \in Clients :
    /\ db
    /\ last.op = "Tick" /\ last.c = c
    /\ app[c].phase = "mounted"
    /\ app[c].user = Null
    /\ app[c].apiStatus = "idle"

\* C9 as stated: in shared mode a client whose effects have run is subscribed
\* to the document whether or not it has an identity
C9_SubscribedWithoutIdentity ==
  \A c \in Clients : db /\ Idle(c) => app[c].subscribed

\* C9 amended: in shared mode a client without identity has no subscription,
\* receives no snapshot and keeps totalActive 0 and no lastUpdated whatever
\* the store holds; a delivery happens only with an identity and makes
\* totalActive the total of the stored document
C9_SubscriptionNeedsIdentity ==
  \A c \in Clients :
    /\ db /\ app[c].phase = "mounted" /\ app[c].user = Null
         => /\ ~app[c].subscribed
            /\ app[c].totalActive = 0
            /\ app[c].lastUpdated = NoDate
    /\ last.op = "Push" /\ last.c = c
         => /\ app[c].user # Null
            /\ store.exists => app[c].totalActive = store.total.v

C9_Witness ==
  \E c \in Clients :
    /\ db
    /\ store.exists /\ store.total.v = 5000
    /\ app[c].phase = "mounted" /\ app[c].fx = {}
    /\ app[c].user = Null
    /\ app[c].signIn = "failed"
    /\ app[c].totalActive = 0

\* C10: with a fixed target T > 0 and displayNumber starting at 0, every
\* render of queued animation steps strictly increases displayNumber without
\* passing T, a single step moves it by 5% of the remaining distance, a
\* remaining distance below 1 snaps it to T, and eventually displayNumber is
\* T with no step queued and no frame requested
Goal == app["u1"].totalActive * Resolution

Settled ==
  /\ app["u1"].displayNumber = Goal
  /\ app["u1"].updates = <<>>
  /\ ~app["u1"].frame
  /\ app["u1"].fx = {}

C10_AnimatorConverges ==
  /\ [][LET prev == app["u1"].displayNumber
            shown == app'["u1"].displayNumber
        IN  /\ last'.op # "RenderDisplay" => shown = prev
            /\ last'.op = "RenderDisplay" /\ prev < Goal =>
                 /\ shown > prev
                 /\ shown <= Goal
                 /\ Goal - prev < Resolution => shown = Goal
                 /\ Len(app["u1"].updates) = 1 /\ Goal - prev >= Resolution =>
                      /\ 100 * (shown - prev) <= 5 * (Goal - prev)
                      /\ 100 * (shown - prev) > 5 * (Goal - prev) - 100]_vars
  /\ [](app["u1"].displayNumber <= Goal)
  /\ <>[]Settled

C10_Witness ==
  /\ last.op = "RenderDisplay"
  /\ app["u1"].totalActive = 1000
  /\ app["u1"].displayNumber = 1000 * Resolution
  /\ ~app["u1"].frame

\* C11: every accepting write replaces the whole snapshot.  A local refresh
\* that accepts a parsed payload leaves trend and headlines equal to those of
\* the payload and lastUpdated equal to the acceptance time; a write to the
\* store stores the payload's trend and headlines with the time of the write;
\* a delivery of the stored document leaves totalActive, trend, headlines and
\* lastUpdated of the client equal to those of the document
C11_WholesaleReplacement ==
  [][\A c \in Clients :
       /\ /\ ~db
          /\ last'.op = "FetchDone" /\ last'.c = c /\ last'.payload.kind = "object"
          /\ app[c].phase = "mounted"
          => /\ app'[c].trend = last'.payload.trend
             /\ Arr(app'[c].headlines) = last'.payload.headlines
             /\ app'[c].lastUpdated = now
       /\ last'.op = "FetchDone" /\ last'.c = c /\ last'.wrote
          => /\ store'.trend = last'.payload.trend
             /\ store'.headlines = last'.payload.headlines
             /\ store'.timestamp = now
       /\ last'.op = "Push" /\ last'.c = c /\ store.exists
          => /\ Num(app'[c].totalActive) = store.total
             /\ app'[c].trend = store.trend
             /\ Arr(app'[c].headlines) = store.headlines
             /\ app'[c].lastUpdated = store.timestamp]_vars

\* C12: a refresh is due for client c at a check
Due(c) ==
  /\ app[c].lastUpdated = NoDate \/ now - app[c].lastUpdated > stalenessThreshold \/ ~db
  /\ db => app[c].user # Null

\* the last step ended a refresh of c without an accepted snapshot: the call
\* failed, the text did not parse, the payload was unusable or the store
\* rejected the write
RefreshAccepted ==
  /\ last.op = "FetchDone"
  /\ IF db THEN last.wrote ELSE last.payload.kind = "object"

RefreshFailed(c) ==
  /\ last.c = c
  /\ last.op \in {"FetchFail", "ParseFail", "FetchDone"}
  /\ ~RefreshAccepted

\* C12: after a failed refresh the timer keeps firing, a tick at which a
\* refresh is due starts a new attempt (whatever apiStatus the failure left),
\* and, the source and the store not failing forever, a later refresh is
\* accepted unless the client meanwhile holds a snapshot that is not stale
C12_RetryAfterFailure ==
  /\ [][\A c \in Clients :
          last'.op = "Tick" /\ last'.c = c /\ Due(c) =>
            /\ Len(app'[c].inflight) = Len(app[c].inflight) + 1
            /\ app'[c].apiStatus = "loading"]_vars
  /\ \A c \in Clients :
       RefreshFailed(c) ~> (RefreshAccepted \/ (db /\ Fresh(c)))

\* a refresh is accepted after an earlier one failed and time has passed
C12_Witness ==
  /\ RefreshAccepted
  /\ last.c = "u1"
  /\ app["u1"].errorDetails = "HTTP 500"
  /\ now > StartTime

\* C13: the accepted total of every client and the total of every document
\* written to the store are never negative, whatever the source returns
C13_NonNegativeTotal ==
  /\ \A c \in Clients : app[c].totalActive >= 0
  /\ store.exists /\ IsNumber(store.total) => store.total.v >= 0

\* shown lies between prev and goal: a move toward goal that does not pass it
Toward(prev, shown, goal) ==
  \/ prev <= shown /\ shown <= goal
  \/ goal <= shown /\ shown <= prev

\* every queued updater holds the target t
AllHold(updates, t) == \A i \in 1..Len(updates) : updates[i] = t

\* C14 as stated: once totalActive has changed, every step that changes
\* displayNumber moves it toward the new totalActive without passing it,
\* displayNumber is never negative, and eventually displayNumber is the new
\* totalActive with nothing queued and no frame requested
C14_EveryStepTowardNewTarget ==
  /\ [][app'["u1"].displayNumber # app["u1"].displayNumber =>
          Toward(app["u1"].displayNumber, app'["u1"].displayNumber,
                 app'["u1"].totalActive * Resolution)]_vars
  /\ [](app["u1"].displayNumber >= 0)
  /\ <>[]Settled

\* What holds of C14: an animation step moves displayNumber toward the
\* totalActive its effect run held, without passing it: the steps an effect run queues
\* after the change hold the new totalActive, and a render of steps that all
\* hold the current totalActive moves displayNumber toward it; a step queued
\* before the change (or by the frame of the previous effect run) moves
\* toward the old totalActive in the render that shows the new one.
\* displayNumber is never negative and eventually it is the new totalActive
\* with nothing queued, without having been reset.
C14_RetargetConverges ==
  /\ [][LET prev == app["u1"].displayNumber
            shown == app'["u1"].displayNumber
            queued == app["u1"].updates
        IN  /\ last'.op = "RunEffects" /\ app'["u1"].updates # queued =>
                 /\ Len(app'["u1"].updates) = Len(queued) + 1
                 /\ app'["u1"].updates[Len(queued) + 1] = app'["u1"].totalActive
            /\ shown # prev =>
                 /\ last'.op \in {"RenderDisplay", "Retarget"}
                 /\ queued # <<>>
                 /\ \A t \in RetargetTargets :
                      AllHold(queued, t) => Toward(prev, shown, t * Resolution)
                 /\ last'.op = "RenderDisplay" /\ AllHold(queued, app["u1"].totalActive) =>
                      Abs(Goal - shown) < Abs(Goal - prev)]_vars
  /\ [](app["u1"].displayNumber >= 0)
  /\ <>[]Settled

\* C15: for previous totals P >= 0 and raw totals R >= 0 the stabilized total
\* is never negative, and when R < P it is at least round(0.95 P) and at
\* most P
C15_StabilizerFloor ==
  last.op = "FetchDone" /\ last.base >= 0 /\ last.raw >= 0 =>
    LET P == last.base
        R == last.raw
        S == app["u1"].totalActive
    IN  /\ S >= 0
        /\ R < P => /\ S <= P
                    /\ \E f \in 0..P : IsRounded(f, 95 * P, 100) /\ S >= f

C15_Witness ==
  /\ last.op = "FetchDone"
  /\ last.base = MaxPrev
  /\ last.raw = 0
  /\ app["u1"].totalActive > 0
  /\ app["u1"].totalActive < MaxPrev

\* C16: a tick at which a refresh is due starts exactly one fetch; a client
\* never has two refreshes awaiting the source; no tick and no re-run of the
\* fetching effect starts a fetch while an earlier one of the client has not
\* completed; and the effect re-run that follows an accepted refresh starts
\* no fetch
C16_SingleRefresh ==
  /\ [](\A c \in Clients : Len(app[c].inflight) <= 1)
  /\ [][\A c \in Clients :
          /\ last'.op = "Tick" /\ last'.c = c /\ Due(c) /\ app[c].inflight = <<>>
               => Len(app'[c].inflight) = 1
          /\ Checks(c) /\ app[c].inflight # <<>>
               => app'[c].inflight = app[c].inflight
          /\ RefreshAccepted /\ last.c = c /\ last'.op = "RunEffects" /\ last'.c = c
               => app'[c].inflight = app[c].inflight]_vars

\* what a client shows for the stored total
StoredTotal == IF IsNumber(store.total) THEN store.total.v ELSE 0

InSync(c) ==
  /\ app[c].totalActive = StoredTotal
  /\ app[c].lastUpdated = store.timestamp

\* C17: in shared mode every write of the document is followed by a delivery
\* to every subscribed client, the writer included; a delivery leaves the
\* client with the stored total (0 if it is not a number) as totalActive and
\* the stored timestamp as lastUpdated; a subscribed client that awaits no
\* delivery holds them; and eventually every subscribed client holds the
\* total of the document for good
C17_SubscribersConverge ==
  /\ [][\A c \in Clients :
          /\ last'.op = "FetchDone" /\ last'.wrote =>
               /\ app'[c].subscribed => app'[c].behind
               /\ last'.c = c /\ app[c].phase = "mounted" => app'[c].subscribed
          /\ last'.op = "Push" /\ last'.c = c /\ store.exists => InSync(c)']_vars
  /\ [](\A c \in Clients :
          store.exists /\ app[c].subscribed /\ ~app[c].behind => InSync(c))
  /\ <>[](\A c \in Clients : store.exists /\ app[c].subscribed => InSync(c))

\* both clients hold the total one of them wrote last, over an earlier write
C17_Witness ==
  /\ store.exists
  /\ store.total = Num(4000)
  /\ store.updatedBy = "u2"
  /\ \A c \in Clients : app[c].subscribed /\ ~app[c].behind /\ app[c].totalActive = 4000
  /\ app["u1"].errorDetails = ""
  /\ Len(app["u1"].inflight) = 1

\* the part of the state of client c that mirrors the snapshot
Mirror(c) ==
  <<app[c].totalActive, app[c].trend, app[c].headlines, app[c].lastUpdated>>

\* C18: in shared mode the completion of a refresh, accepted or failed,
\* leaves totalActive, trend, headlines and lastUpdated of the client as they
\* are, in particular when the store rejects the write of a stabilized
\* total; during a session the four change only in the subscription callback
C18_SharedModeFrame ==
  [][\A c \in Clients :
       db /\ app[c].phase = "mounted" /\ app'[c].phase = "mounted" =>
         /\ last'.c = c /\ last'.op \in {"FetchDone", "FetchFail", "ParseFail"}
              => Mirror(c)' = Mirror(c)
         /\ Mirror(c)' # Mirror(c) => last'.op = "Push" /\ last'.c = c]_vars

\* the store rejected the write of a refresh that had a parsed payload
C18_Witness ==
  \E c \in Clients :
    /\ db
    /\ last.op = "FetchDone" /\ last.c = c /\ ~last.wrote
    /\ last.payload = ValidPayload
    /\ app[c].phase = "mounted"
    /\ app[c].apiStatus = "error"
    /\ app[c].errorDetails = "setDoc failed"
    /\ app[c].totalActive = 4000

\* C19: once a refresh has been accepted (local mode) or a snapshot has been
\* delivered (shared mode), headlines has at least one element; it has one
\* before, so headlines is never empty
C19_HeadlinesNonEmpty ==
  \A c \in Clients : Len(app[c].headlines) >= 1

\* C20: in local mode, with one refresh in flight at a time, a positive
\* totalActive stays positive: a refresh that held P > 0 and received a raw
\* total R >= 0 accepts a total of at least 1, also when zeros are received
\* again and again
C20_PositiveRatchet ==
  /\ [][app["u1"].totalActive > 0 => app'["u1"].totalActive >= 1]_vars
  /\ [](last.op = "FetchDone" /\ last.base > 0 /\ last.raw >= 0 =>
          app["u1"].totalActive >= 1)

\* a refresh that followed an accepted one received 0 at a total of 10, and
\* the total is still 10
C20_Witness ==
  /\ last.op = "FetchDone"
  /\ last.before = "success"
  /\ last.base = 10
  /\ last.raw = 0
  /\ app["u1"].totalActive = 10


=============================================================================
